---- MODULE Spec2Model ----
(***************************************************************************)
(* A model of batchflow's Dataset (src/batchflow/dataset.py): a Dataset    *)
(* owns a reference to a DatasetIndex, a batch class and a preloaded       *)
(* payload.  Objects live in heaps (sequences indexed by address), so that *)
(* object identity ("is") and value equality ("==") are different things.  *)
(* DatasetIndex, Baseset, Batch and Pipeline are not part of the sources   *)
(* at hand; the parts of them Dataset calls follow the specification.      *)
(***************************************************************************)
EXTENDS Integers, Sequences, FiniteSets, TLC

\* ---------------------------------------------------------------- bounds
MaxId == 1          \* item identifiers are 0..MaxId
MaxDatasets == 2    \* capacity of the Dataset heap
MaxPipelines == 2   \* capacity of the Pipeline heap
MaxActions == 4     \* action steps the caller appends to pipelines

Ids == 0..MaxId

\* ---------------------------------------------------------------- classes
IndexTypes == {"DatasetIndex", "FilesIndex", "UserIndex"}
DatasetTypes == {"Dataset", "SubDataset"}
BatchClasses == {"Batch", "OtherBatch"}
\* A batch class whose constructor raises an error of its own.
FailingClasses == {"FailingBatch"}
\* The extra keyword arguments a caller passes to create_batch.
KwargSets == SUBSET {"shape"}
NonPipelineTypes == {"NoneType", "int", "Dataset"}
None == "None"
Payloads == {None, "payload"}

\* The direct base class of a class (single inheritance, depth one).
Base(c) ==
    CASE c = "FilesIndex" -> "DatasetIndex"
      [] c = "UserIndex" -> "DatasetIndex"
      [] c = "SubDataset" -> "Dataset"
      [] OTHER -> "object"

\* Python's isinstance(obj, c) for an object whose type is t.
IsInstance(t, c) == t = c \/ Base(t) = c \/ c = "object"

\* ---------------------------------------------------------------- values
Range(s) == {s[k] : k \in DOMAIN s}

\* Sequences over S without repeated elements.
UniqueSeqs(S) ==
    UNION {{s \in [1..n -> S] : \A i, j \in 1..n : i # j => s[i] # s[j]} :
           n \in 0..Cardinality(S)}

RawLists == UniqueSeqs(Ids)

\* Arguments as the caller writes them: a reference to an index object on
\* the heap, a freshly constructed index T(raw), a raw list, or an integer.
RefArg(i) == [tag |-> "ref", ref |-> i, type |-> "", raw |-> <<>>, n |-> 0]
NewArg(t, S) == [tag |-> "new", ref |-> 0, type |-> t, raw |-> S, n |-> 0]
RawArg(S) == [tag |-> "raw", ref |-> 0, type |-> "list", raw |-> S, n |-> 0]
IntArg(k) == [tag |-> "int", ref |-> 0, type |-> "int", raw |-> <<>>, n |-> k]

VARIABLES
    indexes,    \* heap of DatasetIndex objects: [type, indices]
    datasets,   \* heap of Dataset objects: [cls, index, batch_class, preloaded]
    pipelines,  \* heap of Pipeline objects: [dataset], 0 = unbound
    source,     \* for each Dataset, the Dataset it was derived from (0: none)
    result,     \* the last call: operation, arguments, and what it returned
    workers     \* for each worker thread, the call it is in: [pc, call, ...]

vars == <<indexes, datasets, pipelines, source, result, workers>>

\* DatasetIndex(raw): the identifiers of an index built from a raw list or
\* from an integer count n (0..n-1).
DatasetIndexInit(arg) ==
    IF arg.tag = "int" THEN [k \in 1..arg.n |-> k - 1] ELSE arg.raw

\* The index object an argument denotes.
IndexOf(arg) ==
    IF arg.tag = "ref" THEN indexes[arg.ref]
    ELSE [type |-> arg.type, indices |-> DatasetIndexInit(arg)]

IsIndexArg(arg) == arg.tag \in {"ref", "new"}

\* ---------------------------------------------------------------- Dataset
\* Dataset.__init__: stores the index (an index object is kept by reference,
\* see build_index), the batch class and the preloaded payload.
DatasetInit(cls, index, batch_class, preloaded) ==
    [cls |-> cls, index |-> index, batch_class |-> batch_class,
     preloaded |-> preloaded]

\* The address an index argument has once a Dataset keeps it: its own for an
\* object already on the heap, the next free address for a fresh object.
AddrOf(arg) == IF arg.tag = "ref" THEN arg.ref ELSE Len(indexes) + 1

NoDataset == DatasetInit("", 0, "", None)

\* Faulty variant of _is_same_index: the two types must be the same class.
is_same_index_exact_type(index1, index2) ==
    /\ index1.type = index2.type
    /\ Len(index1.indices) = Len(index2.indices)
    /\ \A k \in DOMAIN index1.indices : index1.indices[k] = index2.indices[k]

\* Faulty variant of _is_same_index: the identifiers are compared as sets,
\* whatever their order.
is_same_index_any_order(index1, index2) ==
    /\ IsInstance(index1.type, index2.type) \/ IsInstance(index2.type, index1.type)
    /\ Len(index1.indices) = Len(index2.indices)
    /\ Range(index1.indices) = Range(index2.indices)

\* Faulty variant of _is_same_index: the shapes are not compared, the
\* identifiers are compared as far as both indices go.
is_same_index_no_shape(index1, index2) ==
    /\ IsInstance(index1.type, index2.type) \/ IsInstance(index2.type, index1.type)
    /\ \A k \in DOMAIN index1.indices \cap DOMAIN index2.indices :
           index1.indices[k] = index2.indices[k]

\* Dataset._is_same_index(index1, index2)
is_same_index(index1, index2) ==
    /\ IsInstance(index1.type, index2.type) \/ IsInstance(index2.type, index1.type)
    /\ Len(index1.indices) = Len(index2.indices)
    /\ \A k \in DOMAIN index1.indices : index1.indices[k] = index2.indices[k]

\* Faulty variant of from_dataset: the batch class is not compared.
from_dataset_ignores_class(cls, d, arg, batch_class) ==
    IF is_same_index(IndexOf(arg), indexes[datasets[d].index])
    THEN [kind |-> "Dataset", same |-> TRUE, ds |-> datasets[d]]
    ELSE LET bcl == IF batch_class # None THEN batch_class
                    ELSE datasets[d].batch_class
         IN [kind |-> "Dataset", same |-> FALSE,
             ds |-> DatasetInit(cls, AddrOf(arg), bcl, datasets[d].preloaded)]

\* Faulty variant of from_dataset: the new Dataset is constructed without
\* the preloaded payload.
from_dataset_without_preloaded(cls, d, arg, batch_class) ==
    IF /\ batch_class = None \/ batch_class = datasets[d].batch_class
       /\ is_same_index(IndexOf(arg), indexes[datasets[d].index])
    THEN [kind |-> "Dataset", same |-> TRUE, ds |-> datasets[d]]
    ELSE LET bcl == IF batch_class # None THEN batch_class
                    ELSE datasets[d].batch_class
         IN [kind |-> "Dataset", same |-> FALSE,
             ds |-> DatasetInit(cls, AddrOf(arg), bcl, None)]

\* Dataset.from_dataset(cls, dataset, index, batch_class): either the source
\* dataset itself (same = TRUE) or a new Dataset (ds).
from_dataset(cls, d, arg, batch_class) ==
    IF /\ batch_class = None \/ batch_class = datasets[d].batch_class
       /\ is_same_index(IndexOf(arg), indexes[datasets[d].index])
    THEN [kind |-> "Dataset", same |-> TRUE, ds |-> datasets[d]]
    ELSE LET bcl == IF batch_class # None THEN batch_class
                    ELSE datasets[d].batch_class
         IN [kind |-> "Dataset", same |-> FALSE,
             ds |-> DatasetInit(cls, AddrOf(arg), bcl, datasets[d].preloaded)]

\* Faulty variant of the containment test: np.isin(a, b).any()
IsInAny(a, b) == \E k \in DOMAIN a : a[k] \in Range(b)

\* np.isin(a, b).all()
IsInAll(a, b) == \A k \in DOMAIN a : a[k] \in Range(b)

\* Faulty variant of create_subset: from_dataset is called on Dataset, not
\* on type(self).
create_subset_base_class(d, arg) ==
    IF ~IsInAll(IndexOf(arg).indices, indexes[datasets[d].index].indices)
    THEN [kind |-> "IndexError", same |-> FALSE, ds |-> NoDataset]
    ELSE from_dataset("Dataset", d, arg, None)

\* Faulty variant of create_subset: the containment test is left out.
create_subset_unchecked(d, arg) ==
    from_dataset(datasets[d].cls, d, arg, None)

\* Faulty variant of create_subset: the operands of np.isin are swapped.
create_subset_swapped(d, arg) ==
    IF ~IsInAll(indexes[datasets[d].index].indices, IndexOf(arg).indices)
    THEN [kind |-> "IndexError", same |-> FALSE, ds |-> NoDataset]
    ELSE from_dataset(datasets[d].cls, d, arg, None)

\* Faulty variant of create_subset: a derived Dataset checks the request
\* against the index of the Dataset it was derived from.
create_subset_of_source(d, arg) ==
    LET owner == IF source[d] = 0 THEN d ELSE source[d]
    IN IF ~IsInAll(IndexOf(arg).indices, indexes[datasets[owner].index].indices)
       THEN [kind |-> "IndexError", same |-> FALSE, ds |-> NoDataset]
       ELSE from_dataset(datasets[d].cls, d, arg, None)

\* Dataset.create_subset(self, index)
create_subset(d, arg) ==
    IF ~IsInAll(IndexOf(arg).indices, indexes[datasets[d].index].indices)
    THEN [kind |-> "IndexError", same |-> FALSE, ds |-> NoDataset]
    ELSE from_dataset(datasets[d].cls, d, arg, None)

\* Faulty variant of build_index: only an index whose type is exactly
\* DatasetIndex is returned as it is.
build_index_exact_type(arg) ==
    IF IsIndexArg(arg) /\ IndexOf(arg).type = "DatasetIndex"
    THEN [ref |-> arg.ref, fresh |-> FALSE, index |-> IndexOf(arg)]
    ELSE [ref |-> 0, fresh |-> TRUE,
          index |-> [type |-> "DatasetIndex",
                     indices |-> IF IsIndexArg(arg) THEN IndexOf(arg).indices
                                 ELSE DatasetIndexInit(arg)]]

\* Dataset.build_index(index): the address of the returned index (0 for an
\* object that is not on the heap), whether it is a new object, and the
\* object.
build_index(arg) ==
    IF IsIndexArg(arg) /\ IsInstance(IndexOf(arg).type, "DatasetIndex")
    THEN [ref |-> arg.ref, fresh |-> FALSE, index |-> IndexOf(arg)]
    ELSE [ref |-> 0, fresh |-> TRUE,
          index |-> [type |-> "DatasetIndex", indices |-> DatasetIndexInit(arg)]]

\* DatasetIndex.create_batch(index, pos): a new DatasetIndex holding the
\* given identifiers, or the identifiers at the given (0-based) positions;
\* a position outside the index is an IndexError.
IndexCreateBatch(index, raw, pos) ==
    IF pos /\ \E k \in DOMAIN raw : raw[k] \notin 0..(Len(index.indices) - 1)
    THEN [kind |-> "IndexError", type |-> "", indices |-> <<>>]
    ELSE [kind |-> "Index", type |-> "DatasetIndex",
          indices |-> IF pos THEN [k \in DOMAIN raw |-> index.indices[raw[k] + 1]]
                      ELSE raw]

\* The error the constructor of a batch class raises ("": none).
BatchClassRaises(cls) ==
    IF cls \in FailingClasses THEN "ConfigurationError" ELSE ""

NoKwargs == {}

\* batch_class(index, preloaded=..., **kwargs): the Batch, or the error that
\* kept it from being built: the IndexError of the index, or the error the
\* batch class raises.
BatchInit(kind, cls, indexref, index, preloaded, kwargs) ==
    IF kind = "IndexError" \/ BatchClassRaises(cls) # ""
    THEN [kind |-> IF kind = "IndexError" THEN kind ELSE BatchClassRaises(cls),
          cls |-> "", indexref |-> 0,
          index |-> [type |-> "", indices |-> <<>>], preloaded |-> None,
          kwargs |-> NoKwargs]
    ELSE [kind |-> "Batch", cls |-> cls, indexref |-> indexref,
          index |-> [type |-> index.type, indices |-> index.indices],
          preloaded |-> preloaded, kwargs |-> kwargs]

\* Faulty variant of create_batch: an index object is converted through
\* self.index.create_batch like a raw argument.
create_batch_converts_index(d, arg, pos, kwargs) ==
    LET raw == IF IsIndexArg(arg) THEN IndexOf(arg).indices ELSE arg.raw
        made == IndexCreateBatch(indexes[datasets[d].index], raw, pos)
    IN BatchInit(made.kind, datasets[d].batch_class, 0, made,
                 datasets[d].preloaded, kwargs)

\* Faulty variant of create_batch: the keyword arguments are not passed on
\* to the batch class.
create_batch_without_kwargs(d, arg, pos, kwargs) ==
    LET made == IndexCreateBatch(indexes[datasets[d].index], arg.raw, pos)
    IN IF ~IsIndexArg(arg)
       THEN BatchInit(made.kind, datasets[d].batch_class, 0, made,
                      datasets[d].preloaded, NoKwargs)
       ELSE BatchInit("Batch", datasets[d].batch_class, arg.ref, IndexOf(arg),
                      datasets[d].preloaded, NoKwargs)

\* Faulty variant of create_batch: a raw argument is always taken as
\* positions.
create_batch_as_positions(d, arg, pos, kwargs) ==
    LET made == IndexCreateBatch(indexes[datasets[d].index], arg.raw, TRUE)
    IN IF ~IsIndexArg(arg)
       THEN BatchInit(made.kind, datasets[d].batch_class, 0, made,
                      datasets[d].preloaded, kwargs)
       ELSE BatchInit("Batch", datasets[d].batch_class, arg.ref, IndexOf(arg),
                      datasets[d].preloaded, kwargs)

\* Faulty variant of create_batch: a raw argument is always taken as
\* identifiers.
create_batch_as_identifiers(d, arg, pos, kwargs) ==
    LET made == IndexCreateBatch(indexes[datasets[d].index], arg.raw, FALSE)
    IN IF ~IsIndexArg(arg)
       THEN BatchInit(made.kind, datasets[d].batch_class, 0, made,
                      datasets[d].preloaded, kwargs)
       ELSE BatchInit("Batch", datasets[d].batch_class, arg.ref, IndexOf(arg),
                      datasets[d].preloaded, kwargs)

\* Dataset.create_batch(self, index, pos, **kwargs): the Batch that is
\* constructed, batch_class(index, preloaded=self.preloaded, **kwargs), on
\* the given index object or on the one self.index.create_batch makes of a
\* raw argument; or the error that was raised.
create_batch(d, arg, pos, kwargs) ==
    LET made == IndexCreateBatch(indexes[datasets[d].index], arg.raw, pos)
    IN IF ~IsIndexArg(arg)
       THEN BatchInit(made.kind, datasets[d].batch_class, 0, made,
                      datasets[d].preloaded, kwargs)
       ELSE BatchInit("Batch", datasets[d].batch_class, arg.ref, IndexOf(arg),
                      datasets[d].preloaded, kwargs)

\* The operations a pipeline step can name.
Actions == {"load", "resize"}

\* Pipeline(dataset): a pipeline bound to dataset (0 = unbound), with no
\* action steps yet.
PipelineInit(d) == [dataset |-> d, actions |-> <<>>]

\* pl.a(...): the pipeline with the step a appended to its chain.
AppendAction(pl, a) == [pl EXCEPT !.actions = Append(@, a)]

\* The pipeline pl followed by the chain A, step by step.
RECURSIVE Chain(_, _)
Chain(pl, A) ==
    IF A = <<>> THEN pl ELSE Chain(AppendAction(pl, Head(A)), Tail(A))

\* Dataset.pipeline(self): Pipeline(self)
pipeline(d) == PipelineInit(d)

\* Pipeline.__lshift__(self, dataset): the pipeline bound to the dataset.
Lshift(p, d) == [pipelines[p] EXCEPT !.dataset = d]

IsPipeline(other) == IsInstance(other.type, "Pipeline")

\* Faulty variant of __rshift__: self.pipeline() is returned for a Pipeline.
rshift_new_pipeline(d, other) ==
    IF ~IsPipeline(other)
    THEN [kind |-> "TypeError", got |-> other.type, p |-> PipelineInit(0)]
    ELSE [kind |-> "Pipeline", got |-> "", p |-> pipeline(d)]

\* Faulty variant of __rshift__: the message names the expected type.
rshift_names_expected(d, other) ==
    IF ~IsPipeline(other)
    THEN [kind |-> "TypeError", got |-> "Pipeline", p |-> PipelineInit(0)]
    ELSE [kind |-> "Pipeline", got |-> "", p |-> Lshift(other.ref, d)]

\* Faulty variant of __rshift__: other is returned as it is.
rshift_returns_other(d, other) ==
    IF ~IsPipeline(other)
    THEN [kind |-> "TypeError", got |-> other.type, p |-> PipelineInit(0)]
    ELSE [kind |-> "Pipeline", got |-> "", p |-> pipelines[other.ref]]

\* Dataset.__rshift__(self, other): a TypeError naming type(other), or
\* other << self.
rshift(d, other) ==
    IF ~IsPipeline(other)
    THEN [kind |-> "TypeError", got |-> other.type, p |-> PipelineInit(0)]
    ELSE [kind |-> "Pipeline", got |-> "", p |-> Lshift(other.ref, d)]

\* ---------------------------------------------------------------- calls
NoIndex == [type |-> "", indices |-> <<>>]
NoBatch == [kind |-> "", cls |-> "", indexref |-> 0, index |-> NoIndex,
            preloaded |-> None, kwargs |-> NoKwargs]
NoArg == RefArg(0)
NoOther == [type |-> "", ref |-> 0]

\* The record of a call: the operation, its receiver (with the receiver's
\* fields, the number of Datasets and the pipelines at the time of the call),
\* its arguments and what it returned: the kind of the outcome, the address
\* of the returned object (0 when it is not on the heap), whether it is a
\* newly allocated object, and the fields of a returned Dataset (ds), index
\* or Batch.
\* Unused fields keep their defaults.
Call(op, d) ==
    [op |-> op, self |-> d, before |-> IF d = 0 THEN NoDataset ELSE datasets[d],
     count |-> Len(datasets), pipes |-> pipelines,
     cls |-> "", arg |-> NoArg, bc |-> None, pos |-> FALSE, other |-> NoOther,
     kind |-> "", ref |-> 0, fresh |-> FALSE, ds |-> NoDataset, index |-> NoIndex,
     batch |-> NoBatch, got |-> "", kwargs |-> NoKwargs]

NoCall == [Call("", 0) EXCEPT !.count = 0, !.pipes = <<>>]

\* The caller is between two calls.
Idle == result.op = ""

\* The caller is done with the returned value (or the raised error).
Return ==
    /\ ~Idle
    /\ result' = NoCall
    /\ UNCHANGED <<indexes, datasets, pipelines, source, workers>>

\* Faulty variant of ReceiverIndexAfter: create_subset sorts self.indices in
\* place before the containment test.
ReceiverIndexAfter_sorted(call) ==
    LET own == indexes[call.before.index]
    IN IF call.op = "create_subset"
       THEN [own EXCEPT !.indices =
                CHOOSE t \in UniqueSeqs(Range(own.indices)) :
                    /\ Len(t) = Len(own.indices)
                    /\ \A i, j \in DOMAIN t : i < j => t[i] < t[j]]
       ELSE own

\* Faulty variant of ReceiverIndexAfter: create_batch stores the identifiers
\* of the batch it makes of a raw argument in self.index.
ReceiverIndexAfter_keeps_batch(call) ==
    IF call.op = "create_batch" /\ call.kind = "Batch" /\ call.arg.tag = "raw"
    THEN [indexes[call.before.index] EXCEPT !.indices = call.batch.index.indices]
    ELSE indexes[call.before.index]

\* The index of the receiver after a call: no method of Dataset writes into
\* self.index or self.indices.
ReceiverIndexAfter(call) == indexes[call.before.index]

\* Faulty variant of ReceiverAfter: a call that fails has cleared
\* self.preloaded before it raises.
ReceiverAfter_drops_preloaded(call) ==
    IF call.kind \in {"IndexError", "TypeError"}
    THEN [call.before EXCEPT !.preloaded = None]
    ELSE call.before

\* The receiver after a call: outside __init__ no method of Dataset assigns
\* to an attribute of self.
ReceiverAfter(call) == call.before

\* The heaps as a call leaves the objects that were on them.
DatasetsAfter(call) ==
    IF call.self = 0 THEN datasets
    ELSE [datasets EXCEPT ![call.self] = ReceiverAfter(call)]

IndexesAfter(call) ==
    IF call.self = 0 THEN indexes
    ELSE [indexes EXCEPT ![call.before.index] = ReceiverIndexAfter(call)]

\* Index arguments a caller can pass: an index object some Dataset holds, or
\* a freshly constructed one.
IndexArgs ==
    {RefArg(i) : i \in DOMAIN indexes}
        \cup {NewArg(t, S) : t \in IndexTypes, S \in RawLists}

\* A call that returns a Dataset or fails.  The caller keeps a new Dataset
\* (keep) while there is room on the heap, together with its index when that
\* is a fresh object; otherwise the new Dataset is used and dropped.
ReturnDataset(call, arg, ret, keep) ==
    IF ret.kind = "Dataset" /\ ~ret.same
    THEN LET kept == keep /\ Len(datasets) < MaxDatasets
             done == [call EXCEPT !.kind = ret.kind, !.fresh = TRUE,
                                  !.ds = ret.ds, !.index = IndexOf(arg),
                                  !.ref = IF kept THEN Len(datasets) + 1 ELSE 0]
         IN /\ result' = done
            /\ datasets' = IF kept THEN Append(DatasetsAfter(done), ret.ds)
                           ELSE DatasetsAfter(done)
            /\ indexes' = IF kept /\ arg.tag = "new"
                          THEN Append(IndexesAfter(done), IndexOf(arg))
                          ELSE IndexesAfter(done)
            /\ source' = IF kept THEN Append(source, call.self) ELSE source
            /\ UNCHANGED <<pipelines, workers>>
    ELSE LET done == IF ret.kind = "Dataset"
                     THEN [call EXCEPT !.kind = ret.kind, !.ref = call.self,
                                       !.ds = ret.ds,
                                       !.index = indexes[ret.ds.index]]
                     ELSE [call EXCEPT !.kind = ret.kind]
         IN /\ result' = done
            /\ datasets' = DatasetsAfter(done)
            /\ indexes' = IndexesAfter(done)
            /\ UNCHANGED <<pipelines, source, workers>>

CallFromDataset(cls, d, arg, bc, keep) ==
    /\ Idle
    /\ ReturnDataset([Call("from_dataset", d) EXCEPT !.cls = cls, !.arg = arg, !.bc = bc],
                     arg, from_dataset(cls, d, arg, bc), keep)

CallCreateSubset(d, arg, keep) ==
    /\ Idle
    /\ ReturnDataset([Call("create_subset", d) EXCEPT !.arg = arg],
                     arg, create_subset(d, arg), keep)

CallBuildIndex(arg) ==
    LET ret == build_index(arg)
    IN /\ Idle
       /\ result' = [Call("build_index", 0) EXCEPT !.arg = arg, !.kind = "Index",
                                                   !.ref = ret.ref, !.fresh = ret.fresh,
                                                   !.index = ret.index]
       /\ UNCHANGED <<indexes, datasets, pipelines, source, workers>>

\* Raw arguments of create_batch: identifiers of the index, or positions
\* into it.
BatchRaw(d, pos) ==
    LET own == indexes[datasets[d].index].indices
    IN IF pos THEN UniqueSeqs(0..(Len(own) - 1)) ELSE UniqueSeqs(Range(own))

CallCreateBatch(d, arg, pos, kwargs) ==
    LET ret == create_batch(d, arg, pos, kwargs)
        done == [Call("create_batch", d) EXCEPT !.arg = arg, !.pos = pos,
                     !.kwargs = kwargs,
                     !.kind = ret.kind, !.fresh = ret.kind = "Batch",
                     !.batch = ret]
    IN /\ Idle
       /\ result' = done
       /\ datasets' = DatasetsAfter(done)
       /\ indexes' = IndexesAfter(done)
       /\ UNCHANGED <<pipelines, source, workers>>

CallPipeline(d) ==
    LET done == [Call("pipeline", d) EXCEPT !.kind = "Pipeline", !.fresh = TRUE,
                                            !.ref = Len(pipelines) + 1]
    IN /\ Idle
       /\ Len(pipelines) < MaxPipelines
       /\ pipelines' = Append(pipelines, pipeline(d))
       /\ result' = done
       /\ datasets' = DatasetsAfter(done)
       /\ indexes' = IndexesAfter(done)
       /\ UNCHANGED <<source, workers>>

\* Pipeline(): the caller builds an unbound pipeline.
NewPipeline ==
    /\ Idle
    /\ Len(pipelines) < MaxPipelines
    /\ pipelines' = Append(pipelines, PipelineInit(0))
    /\ result' = [Call("Pipeline", 0) EXCEPT !.kind = "Pipeline", !.fresh = TRUE,
                                             !.ref = Len(pipelines) + 1]
    /\ UNCHANGED <<indexes, datasets, source, workers>>

\* The number of action steps the pipelines on the heap hold together.
RECURSIVE TotalActions(_)
TotalActions(ps) ==
    IF ps = <<>> THEN 0 ELSE Len(Head(ps).actions) + TotalActions(Tail(ps))

\* p.a(...): the caller appends the step a to the chain of pipeline p.
CallAction(p, a) ==
    /\ Idle
    /\ TotalActions(pipelines) < MaxActions
    /\ pipelines' = [pipelines EXCEPT ![p] = AppendAction(pipelines[p], a)]
    /\ result' = [Call("action", 0) EXCEPT !.kind = "Pipeline", !.ref = p,
                                           !.got = a]
    /\ UNCHANGED <<indexes, datasets, source, workers>>

\* Right-hand operands of >>: a pipeline on the heap or something else.
Others ==
    {[type |-> "Pipeline", ref |-> p] : p \in DOMAIN pipelines}
        \cup {[type |-> t, ref |-> 0] : t \in NonPipelineTypes}

\* d >> other.  Whether << binds the pipeline itself or a copy of it is
\* left open (copy).
CallRshift(d, other, copy) ==
    LET ret == rshift(d, other)
        call == [Call("rshift", d) EXCEPT !.other = other, !.kind = ret.kind,
                                          !.got = ret.got]
    IN /\ Idle
       /\ datasets' = DatasetsAfter(call)
       /\ indexes' = IndexesAfter(call)
       /\ UNCHANGED <<source, workers>>
       /\ IF ret.kind # "Pipeline"
          THEN /\ ~copy
               /\ result' = call
               /\ UNCHANGED pipelines
          ELSE IF copy
          THEN /\ Len(pipelines) < MaxPipelines
               /\ pipelines' = Append(pipelines, ret.p)
               /\ result' = [call EXCEPT !.ref = Len(pipelines) + 1, !.fresh = TRUE]
          ELSE /\ pipelines' = [pipelines EXCEPT ![other.ref] = ret.p]
               /\ result' = [call EXCEPT !.ref = other.ref]

\* --------------------------------------------------------------- workers
\* Worker threads call create_batch and create_subset on the same Dataset.
\* There is no lock in Dataset: a call is a sequence of steps, one for each
\* statement that reads the Dataset or its index, and the steps of different
\* workers interleave.
Workers == {"w1", "w2"}

NoLocal == [kind |-> "", ref |-> 0, index |-> NoIndex]

\* A worker: where it is in its call (pc), the call, the local variable
\* index of create_batch, and the outcome (out).  alone is what the call
\* returns when it runs from start to end at the time it starts, seen is the
\* receiver's index at that time, and overlapped tells that another worker
\* was inside a call when this one ended.
IdleWorker ==
    [pc |-> "idle", call |-> NoCall, local |-> NoLocal, out |-> NoBatch,
     alone |-> NoBatch, seen |-> NoIndex, overlapped |-> FALSE]

WorkerCreateBatch(w, d, arg, pos) ==
    /\ workers[w].pc = "idle"
    /\ workers' = [workers EXCEPT ![w] =
           [IdleWorker EXCEPT !.pc = "isinstance",
                !.call = [Call("create_batch", d) EXCEPT !.arg = arg, !.pos = pos],
                !.alone = create_batch(d, arg, pos, NoKwargs),
                !.seen = indexes[datasets[d].index]]]
    /\ UNCHANGED <<indexes, datasets, pipelines, source, result>>

WorkerCreateSubset(w, d, arg) ==
    /\ workers[w].pc = "idle"
    /\ workers' = [workers EXCEPT ![w] =
           [IdleWorker EXCEPT !.pc = "isin",
                !.call = [Call("create_subset", d) EXCEPT !.arg = arg],
                !.alone = create_subset(d, arg),
                !.seen = indexes[datasets[d].index]]]
    /\ UNCHANGED <<indexes, datasets, pipelines, source, result>>

\* The call of worker w ends with outcome out.
WorkerEnd(w, done, out) ==
    /\ workers' = [workers EXCEPT ![w] =
           [@ EXCEPT !.pc = "done", !.call = done, !.out = out,
                     !.overlapped = \E v \in Workers \ {w} :
                                        workers[v].pc \notin {"idle", "done"}]]
    /\ datasets' = DatasetsAfter(done)
    /\ indexes' = IndexesAfter(done)
    /\ UNCHANGED <<pipelines, source, result>>

\* The call of worker w goes on at pc with the local variable index set.
WorkerGoes(w, pc, local) ==
    /\ workers' = [workers EXCEPT ![w] = [@ EXCEPT !.pc = pc, !.local = local]]
    /\ UNCHANGED <<indexes, datasets, pipelines, source, result>>

\* create_batch: if not isinstance(index, DatasetIndex)
WorkerIsInstance(w) ==
    LET arg == workers[w].call.arg
    IN /\ workers[w].pc = "isinstance"
       /\ IF IsIndexArg(arg)
          THEN WorkerGoes(w, "batch", [kind |-> "Index", ref |-> arg.ref,
                                       index |-> IndexOf(arg)])
          ELSE WorkerGoes(w, "index", NoLocal)

\* create_batch: index = self.index.create_batch(index, pos)
WorkerIndex(w) ==
    LET call == workers[w].call
        made == IndexCreateBatch(indexes[datasets[call.self].index],
                                 call.arg.raw, call.pos)
        out == BatchInit(made.kind, "", 0, made, None, NoKwargs)
    IN /\ workers[w].pc = "index"
       /\ IF made.kind = "IndexError"
          THEN WorkerEnd(w, [call EXCEPT !.kind = out.kind, !.batch = out], out)
          ELSE WorkerGoes(w, "batch", [kind |-> made.kind, ref |-> 0,
                                       index |-> made])

\* create_batch: return self.batch_class(index, preloaded=self.preloaded)
WorkerBatch(w) ==
    LET call == workers[w].call
        local == workers[w].local
        out == BatchInit("Batch", datasets[call.self].batch_class, local.ref,
                         local.index, datasets[call.self].preloaded, NoKwargs)
    IN /\ workers[w].pc = "batch"
       /\ WorkerEnd(w, [call EXCEPT !.kind = out.kind, !.fresh = TRUE,
                                    !.batch = out], out)

\* create_subset: if not np.isin(index.indices, self.indices).all()
WorkerIsIn(w) ==
    LET call == workers[w].call
        out == [kind |-> "IndexError", same |-> FALSE, ds |-> NoDataset]
    IN /\ workers[w].pc = "isin"
       /\ IF ~IsInAll(IndexOf(call.arg).indices,
                      indexes[datasets[call.self].index].indices)
          THEN WorkerEnd(w, [call EXCEPT !.kind = out.kind], out)
          ELSE WorkerGoes(w, "from_dataset", NoLocal)

\* create_subset: return type(self).from_dataset(self, index)
WorkerFromDataset(w) ==
    LET call == workers[w].call
        out == from_dataset(datasets[call.self].cls, call.self, call.arg, None)
    IN /\ workers[w].pc = "from_dataset"
       /\ WorkerEnd(w, [call EXCEPT !.kind = out.kind, !.ds = out.ds,
                                    !.fresh = ~out.same], out)

\* The worker is done with what its call returned or raised.
WorkerReturn(w) ==
    /\ workers[w].pc = "done"
    /\ workers' = [workers EXCEPT ![w] = IdleWorker]
    /\ UNCHANGED <<indexes, datasets, pipelines, source, result>>

\* ---------------------------------------------------------------- system
\* Spec: one Dataset built by its constructor from a fresh index; Datasets
\* are made of it with from_dataset and create_subset, used and dropped.
Init ==
    \E cls \in DatasetTypes, t \in IndexTypes, S \in RawLists,
       bc \in BatchClasses, pre \in Payloads :
        /\ indexes = <<[type |-> t, indices |-> S]>>
        /\ datasets = <<DatasetInit(cls, 1, bc, pre)>>
        /\ pipelines = <<>>
        /\ source = <<0>>
        /\ result = NoCall
        /\ workers = <<>>

Next ==
    \/ \E cls \in DatasetTypes, d \in DOMAIN datasets, arg \in IndexArgs,
          bc \in BatchClasses \cup {None} : CallFromDataset(cls, d, arg, bc, FALSE)
    \/ \E d \in DOMAIN datasets, arg \in IndexArgs : CallCreateSubset(d, arg, FALSE)
    \/ Return

Spec == Init /\ [][Next]_vars

\* SpecDerive: the caller keeps the subsets it creates, and creates subsets
\* of subsets.
InitDerive ==
    \E cls \in DatasetTypes, t \in IndexTypes, S \in RawLists, pre \in Payloads :
        /\ indexes = <<[type |-> t, indices |-> S]>>
        /\ datasets = <<DatasetInit(cls, 1, "Batch", pre)>>
        /\ pipelines = <<>>
        /\ source = <<0>>
        /\ result = NoCall
        /\ workers = <<>>

NextDerive ==
    \/ \E d \in DOMAIN datasets :
          \E arg \in {RefArg(i) : i \in DOMAIN indexes}
                         \cup {NewArg("DatasetIndex", S) : S \in RawLists} :
              CallCreateSubset(d, arg, TRUE)
    \/ Return

SpecDerive == InitDerive /\ [][NextDerive]_vars

\* SpecCalls: every kind of call is made on one Dataset, in any order.
NextCalls ==
    \/ \E cls \in DatasetTypes, d \in DOMAIN datasets, arg \in IndexArgs,
          bc \in BatchClasses \cup {None} : CallFromDataset(cls, d, arg, bc, FALSE)
    \/ \E d \in DOMAIN datasets, arg \in IndexArgs : CallCreateSubset(d, arg, FALSE)
    \/ \E d \in DOMAIN datasets, pos \in BOOLEAN :
          \E arg \in IndexArgs \cup {RawArg(S) : S \in BatchRaw(d, pos)} :
              CallCreateBatch(d, arg, pos, NoKwargs)
    \/ \E d \in DOMAIN datasets : CallPipeline(d)
    \/ \E d \in DOMAIN datasets, other \in Others, copy \in BOOLEAN :
          CallRshift(d, other, copy)
    \/ Return

SpecCalls == InitDerive /\ [][NextCalls]_vars

\* SpecWorkers: the workers share one Dataset.
InitWorkers ==
    \E S \in RawLists :
        /\ indexes = <<[type |-> "DatasetIndex", indices |-> S]>>
        /\ datasets = <<DatasetInit("Dataset", 1, "Batch", "payload")>>
        /\ pipelines = <<>>
        /\ source = <<0>>
        /\ result = NoCall
        /\ workers = [w \in Workers |-> IdleWorker]

NextWorkers ==
    \E w \in Workers :
        \/ \E d \in DOMAIN datasets, pos \in BOOLEAN :
              \E arg \in {RefArg(i) : i \in DOMAIN indexes}
                             \cup {RawArg(S) : S \in BatchRaw(d, pos)} :
                  WorkerCreateBatch(w, d, arg, pos)
        \/ \E d \in DOMAIN datasets :
              \E arg \in {RefArg(i) : i \in DOMAIN indexes}
                             \cup {NewArg("DatasetIndex", S) : S \in RawLists} :
                  WorkerCreateSubset(w, d, arg)
        \/ WorkerIsInstance(w)
        \/ WorkerIndex(w)
        \/ WorkerBatch(w)
        \/ WorkerIsIn(w)
        \/ WorkerFromDataset(w)
        \/ WorkerReturn(w)

SpecWorkers == InitWorkers /\ [][NextWorkers]_vars

\* SpecChain: two Datasets built from integer counts; pipelines are started,
\* given action steps and bound.
InitChain ==
    /\ indexes = <<IndexOf(NewArg("DatasetIndex", DatasetIndexInit(IntArg(MaxId + 1)))),
                   IndexOf(NewArg("DatasetIndex", DatasetIndexInit(IntArg(1))))>>
    /\ datasets = <<DatasetInit("Dataset", 1, "Batch", None),
                    DatasetInit("Dataset", 2, "Batch", "payload")>>
    /\ pipelines = <<>>
    /\ source = <<0, 0>>
    /\ result = NoCall
    /\ workers = <<>>

NextChain ==
    \/ \E d \in DOMAIN datasets : CallPipeline(d)
    \/ NewPipeline
    \/ \E p \in DOMAIN pipelines, a \in Actions : CallAction(p, a)
    \/ \E d \in DOMAIN datasets, other \in Others, copy \in BOOLEAN :
          CallRshift(d, other, copy)
    \/ Return

SpecChain == InitChain /\ [][NextChain]_vars

\* SpecLineage: Datasets are derived from one Dataset and from each other by
\* create_subset and by from_dataset without a batch class, and kept.
InitLineage ==
    \E bc \in BatchClasses, pre \in Payloads :
        /\ indexes = <<IndexOf(NewArg("DatasetIndex", DatasetIndexInit(IntArg(MaxId + 1))))>>
        /\ datasets = <<DatasetInit("Dataset", 1, bc, pre)>>
        /\ pipelines = <<>>
        /\ source = <<0>>
        /\ result = NoCall
        /\ workers = <<>>

NextLineage ==
    \/ \E d \in DOMAIN datasets :
          \E arg \in {RefArg(i) : i \in DOMAIN indexes}
                         \cup {NewArg("DatasetIndex", S) : S \in RawLists} :
              \/ CallCreateSubset(d, arg, TRUE)
              \/ CallFromDataset(datasets[d].cls, d, arg, None, TRUE)
    \/ Return

SpecLineage == InitLineage /\ [][NextLineage]_vars

\* SpecConstruct: batches are made of one Dataset, with extra keyword
\* arguments or without; its batch class may be one that raises.
InitConstruct ==
    \E S \in RawLists, bc \in BatchClasses \cup FailingClasses, pre \in Payloads :
        /\ indexes = <<[type |-> "DatasetIndex", indices |-> S]>>
        /\ datasets = <<DatasetInit("Dataset", 1, bc, pre)>>
        /\ pipelines = <<>>
        /\ source = <<0>>
        /\ result = NoCall
        /\ workers = <<>>

NextConstruct ==
    \/ \E d \in DOMAIN datasets, pos \in BOOLEAN, kwargs \in KwargSets :
          \E arg \in IndexArgs \cup {RawArg(S) : S \in BatchRaw(d, pos)} :
              CallCreateBatch(d, arg, pos, kwargs)
    \/ Return

SpecConstruct == InitConstruct /\ [][NextConstruct]_vars

\* SpecBatch: batches and indexes are built for one Dataset.
NextBatch ==
    \/ \E arg \in {RefArg(i) : i \in DOMAIN indexes}
                    \cup {RawArg(S) : S \in RawLists}
                    \cup {IntArg(k) : k \in 0..(MaxId + 1)} :
          CallBuildIndex(arg)
    \/ \E d \in DOMAIN datasets, pos \in BOOLEAN :
          \E arg \in IndexArgs \cup {RawArg(S) : S \in BatchRaw(d, pos)} :
              CallCreateBatch(d, arg, pos, NoKwargs)
    \/ Return

SpecBatch == Init /\ [][NextBatch]_vars

\* SpecBind: two Datasets, and the pipelines started from them or bound to
\* them.
InitBind ==
    \E S1 \in RawLists, S2 \in RawLists :
        /\ indexes = <<[type |-> "DatasetIndex", indices |-> S1],
                       [type |-> "DatasetIndex", indices |-> S2]>>
        /\ datasets = <<DatasetInit("Dataset", 1, "Batch", None),
                        DatasetInit("Dataset", 2, "Batch", "payload")>>
        /\ pipelines = <<>>
        /\ source = <<0, 0>>
        /\ result = NoCall
        /\ workers = <<>>

NextBind ==
    \/ \E d \in DOMAIN datasets : CallPipeline(d)
    \/ NewPipeline
    \/ \E d \in DOMAIN datasets, other \in Others, copy \in BOOLEAN :
          CallRshift(d, other, copy)
    \/ Return

SpecBind == InitBind /\ [][NextBind]_vars

\* ---------------------------------------------------------------- claims
\* The index of Dataset d, and the index the last call was given.
IndexOfDataset(d) == indexes[datasets[d].index]
ArgIndex == IndexOf(result.arg)
OwnIndex == indexes[result.before.index]

\* Equal by shape and elementwise identifiers.
SameIdentifiers(a, b) ==
    /\ Len(a.indices) = Len(b.indices)
    /\ \A k \in 1..Len(a.indices) : a.indices[k] = b.indices[k]

\* One type is the other or a subclass of it.
TypeRelated(a, b) ==
    a.type = b.type \/ Base(a.type) = b.type \/ Base(b.type) = a.type

ClassMatches == result.bc = None \/ result.bc = result.before.batch_class

ReturnedSelf ==
    /\ result.kind = "Dataset"
    /\ ~result.fresh
    /\ result.ref = result.self
    /\ result.ds = result.before
    /\ Len(datasets) = result.count

\* C1 as stated: from_dataset(D, I), with batch_class omitted or equal to
\* D.batch_class and I the same object as D.index or equal to it by shape and
\* identifiers, returns the object D itself.
C1_EqualIndexReturnsSame ==
    (result.op = "from_dataset" /\ ClassMatches /\ SameIdentifiers(ArgIndex, OwnIndex))
        => ReturnedSelf

\* C1 amended: from_dataset(D, I), with batch_class omitted or equal to
\* D.batch_class and I the same object as D.index or equal to it by shape and
\* identifiers and of a type that is the type of D.index, a subclass of it or
\* a superclass of it, returns the object D itself and allocates no Dataset.
C1_RelatedEqualIndexReturnsSame ==
    (/\ result.op = "from_dataset"
     /\ ClassMatches
     /\ SameIdentifiers(ArgIndex, OwnIndex)
     /\ TypeRelated(ArgIndex, OwnIndex))
        => ReturnedSelf

\* D is returned for a different index object of a different, related type.
C1_Witness ==
    /\ result.op = "from_dataset"
    /\ result.arg.tag = "new"
    /\ result.bc = result.before.batch_class
    /\ ArgIndex.type # OwnIndex.type
    /\ Len(ArgIndex.indices) = 2
    /\ ReturnedSelf

\* C2: from_dataset(D, D.index, batch_class=Other) with Other different from
\* D.batch_class returns a Dataset object distinct from D, with D's index,
\* batch class Other and D's preloaded reference.
C2_OtherClassGivesNewDataset ==
    (/\ result.op = "from_dataset"
     /\ result.arg = RefArg(result.before.index)
     /\ result.bc \notin {None, result.before.batch_class})
        => /\ result.kind = "Dataset"
           /\ result.fresh
           /\ result.ref # result.self
           /\ datasets[result.self] = result.before
           /\ result.ds.index = result.before.index
           /\ SameIdentifiers(result.index, OwnIndex)
           /\ result.ds.batch_class = result.bc
           /\ result.ds.preloaded = result.before.preloaded

C2_Witness ==
    /\ result.op = "from_dataset"
    /\ result.arg = RefArg(result.before.index)
    /\ result.bc = "OtherBatch"
    /\ result.before.batch_class = "Batch"
    /\ result.before.preloaded = "payload"
    /\ Len(OwnIndex.indices) = 2
    /\ result.fresh
    /\ result.ds.batch_class = "OtherBatch"

\* The last call is D.create_subset(DatasetIndex(S)) for a fresh index.
SubsetOfFresh ==
    /\ result.op = "create_subset"
    /\ result.arg.tag = "new"
    /\ result.arg.type = "DatasetIndex"

\* C3: D.create_subset(DatasetIndex(S)) for a sub-collection S of D's
\* identifiers (any order, any size) succeeds, and the identifiers of the
\* returned Dataset are S in the order given.
C3_SubsetKeepsRequestedOrder ==
    (SubsetOfFresh /\ Range(result.arg.raw) \subseteq Range(OwnIndex.indices))
        => /\ result.kind = "Dataset"
           /\ result.index.indices = result.arg.raw

\* A new Dataset over D's two identifiers in the opposite order.
C3_Witness ==
    /\ SubsetOfFresh
    /\ Len(result.arg.raw) = 2
    /\ Range(result.arg.raw) = Range(OwnIndex.indices)
    /\ result.arg.raw # OwnIndex.indices
    /\ result.kind = "Dataset"
    /\ result.fresh

\* C4: D.create_subset(DatasetIndex(T)) fails with the IndexError and returns
\* no Dataset whenever T holds an identifier that is not in D's index.
C4_OutsideIdentifierFails ==
    (SubsetOfFresh /\ ~(Range(result.arg.raw) \subseteq Range(OwnIndex.indices)))
        => /\ result.kind = "IndexError"
           /\ result.ref = 0
           /\ ~result.fresh
           /\ Len(datasets) = result.count

\* T holds an identifier of D's index and one that is not in it.
C4_Witness ==
    /\ SubsetOfFresh
    /\ Range(result.arg.raw) \cap Range(OwnIndex.indices) # {}
    /\ Range(result.arg.raw) \ Range(OwnIndex.indices) # {}
    /\ result.kind = "IndexError"

\* The last call is sub.create_subset(I) for a subset sub of a Dataset D,
\* and I holds an identifier x of D's index that is not in sub's index.
AsksSourceIdentifier ==
    /\ result.op = "create_subset"
    /\ source[result.self] # 0
    /\ Range(OwnIndex.indices) \subseteq Range(IndexOfDataset(source[result.self]).indices)
    /\ \E x \in Range(ArgIndex.indices) :
          /\ x \in Range(IndexOfDataset(source[result.self]).indices)
          /\ x \notin Range(OwnIndex.indices)

\* C5: create_subset checks containment against the receiver's own index:
\* for a subset sub of D and an identifier x of D's index that is not in
\* sub's index, sub.create_subset(DatasetIndex([x])) fails with the
\* IndexError.
C5_CheckedAgainstOwnIndex ==
    AsksSourceIdentifier => result.kind = "IndexError" /\ ~result.fresh

\* sub was made by D.create_subset and is asked for one identifier of D.
C5_Witness ==
    /\ AsksSourceIdentifier
    /\ Len(ArgIndex.indices) = 1
    /\ Len(OwnIndex.indices) = 1
    /\ result.kind = "IndexError"

\* The last call is D.create_batch(list, pos) for a raw list.
BatchOfRaw(pos) ==
    /\ result.op = "create_batch"
    /\ result.arg.tag = "raw"
    /\ result.pos = pos

\* C6: D.create_batch(list, pos=False) for a raw list of identifiers of D's
\* index returns a Batch whose index identifiers are that list, in the
\* given order.
C6_BatchOfIdentifiers ==
    (BatchOfRaw(FALSE) /\ Range(result.arg.raw) \subseteq Range(OwnIndex.indices))
        => /\ result.kind = "Batch"
           /\ result.batch.index.indices = result.arg.raw

\* Both identifiers are asked for in the order opposite to the index's.
C6_Witness ==
    /\ BatchOfRaw(FALSE)
    /\ Len(result.arg.raw) = 2
    /\ Range(result.arg.raw) = Range(OwnIndex.indices)
    /\ result.arg.raw # OwnIndex.indices
    /\ result.batch.index.indices = result.arg.raw

ValidPositions(raw, index) ==
    \A k \in DOMAIN raw : raw[k] \in 0..(Len(index.indices) - 1)

\* C7: D.create_batch(list, pos=True) for a raw list of valid positions
\* returns a Batch whose index identifiers are the identifiers stored at
\* those positions of D's index, in that order, also when a position is
\* itself an identifier of the index.
C7_BatchOfPositions ==
    (BatchOfRaw(TRUE) /\ ValidPositions(result.arg.raw, OwnIndex))
        => /\ result.kind = "Batch"
           /\ Len(result.batch.index.indices) = Len(result.arg.raw)
           /\ \A k \in DOMAIN result.arg.raw :
                 result.batch.index.indices[k] = OwnIndex.indices[result.arg.raw[k] + 1]

\* A position that is an identifier of the index, with another identifier
\* stored at it.
C7_Witness ==
    /\ BatchOfRaw(TRUE)
    /\ Len(result.arg.raw) = 1
    /\ result.arg.raw[1] \in Range(OwnIndex.indices)
    /\ result.kind = "Batch"
    /\ result.batch.index.indices # result.arg.raw

\* C8: d >> x for an x that is not a Pipeline fails with the TypeError, whose
\* message names the type of x; no Pipeline is produced, no pipeline is
\* bound or rebound, and d is as before.
C8_NonPipelineRejected ==
    (result.op = "rshift" /\ result.other.type \in NonPipelineTypes)
        => /\ result.kind = "TypeError"
           /\ result.got = result.other.type
           /\ result.ref = 0
           /\ ~result.fresh
           /\ pipelines = result.pipes
           /\ datasets[result.self] = result.before

\* A non-pipeline is rejected by a Dataset that pipelines are bound to.
C8_Witness ==
    /\ result.op = "rshift"
    /\ result.other.type = "int"
    /\ result.kind = "TypeError"
    /\ \E p \in DOMAIN pipelines : pipelines[p].dataset = result.self

\* C9: d >> p for a Pipeline p, unbound or bound to another dataset, returns
\* a Pipeline whose dataset is d, and d is as before: its index, batch class
\* and preloaded are unchanged.
C9_PipelineBoundToDataset ==
    (result.op = "rshift" /\ result.other.type = "Pipeline")
        => /\ result.kind = "Pipeline"
           /\ result.ref \in DOMAIN pipelines
           /\ pipelines[result.ref].dataset = result.self
           /\ datasets[result.self] = result.before
           /\ Len(datasets) = result.count

\* p was bound to another dataset.
C9_Witness ==
    /\ result.op = "rshift"
    /\ result.other.type = "Pipeline"
    /\ result.pipes[result.other.ref].dataset \notin {0, result.self}
    /\ result.kind = "Pipeline"
    /\ pipelines[result.ref].dataset = result.self

\* C10: build_index(I) returns the object I itself when I is a DatasetIndex
\* or an instance of a subclass of it, and constructs a new DatasetIndex for
\* any other input.
C10_BuildIndexReusesIndex ==
    result.op = "build_index"
        => IF result.arg.tag = "ref"
           THEN /\ ~result.fresh
                /\ result.ref = result.arg.ref
                /\ result.index = indexes[result.arg.ref]
           ELSE /\ result.fresh
                /\ result.ref = 0
                /\ result.index.type = "DatasetIndex"
                /\ result.index.indices =
                       IF result.arg.tag = "int"
                       THEN [k \in 1..result.arg.n |-> k - 1]
                       ELSE result.arg.raw

\* An instance of a subclass of DatasetIndex is returned as it is.
C10_Witness ==
    /\ result.op = "build_index"
    /\ result.arg.tag = "ref"
    /\ indexes[result.arg.ref].type = "FilesIndex"
    /\ result.ref = result.arg.ref
    /\ ~result.fresh

\* C11: after any sequence of create_batch, create_subset, from_dataset,
\* pipeline and >> calls every Dataset has the index identifiers (content and
\* order), the index object, the batch class and the preloaded payload it
\* had before: no call changes a Dataset or its index.
C11_CallsLeaveDatasets ==
    [][\A d \in DOMAIN datasets :
          /\ d \in DOMAIN datasets'
          /\ datasets'[d] = datasets[d]
          /\ indexes'[datasets[d].index] = indexes[datasets[d].index]]_vars

\* A batch over other identifiers than the receiver's has been made after
\* two pipelines were started or bound.
C11_Witness ==
    /\ result.op = "create_batch"
    /\ result.kind = "Batch"
    /\ result.arg.tag = "raw"
    /\ Len(result.batch.index.indices) = 1
    /\ Len(IndexOfDataset(result.self).indices) = 2
    /\ Len(pipelines) = 2
    /\ pipelines[2].dataset = result.self

\* C12: when several workers call create_batch and create_subset on the same
\* Dataset at the same time, then under every interleaving of their steps
\* each call returns what it would return running alone, and as long as a
\* call lasts the Dataset and its index are as they were when it started.
C12_WorkersDoNotInterfere ==
    \A w \in DOMAIN workers :
        LET me == workers[w]
        IN /\ me.pc # "idle" =>
                /\ datasets[me.call.self] = me.call.before
                /\ indexes[me.call.before.index] = me.seen
           /\ me.pc = "done" => me.out = me.alone

\* A worker has made a batch of positions while the other worker was inside
\* a call, and the other worker is still inside create_subset.
C12_Witness ==
    /\ DOMAIN workers = Workers
    /\ workers["w1"].pc = "done"
    /\ workers["w1"].overlapped
    /\ workers["w1"].call.op = "create_batch"
    /\ workers["w1"].call.pos
    /\ workers["w1"].out.kind = "Batch"
    /\ Len(workers["w1"].out.index.indices) = 1
    /\ workers["w2"].pc = "from_dataset"

\* C13: a call that fails leaves everything as it was: when create_subset
\* raises IndexError or >> raises TypeError, the receiver, its index, its
\* preloaded payload and the operands (the index objects and the pipelines)
\* are in the state they had before the call.
C13_FailedCallChangesNothing ==
    [][result'.kind \in {"IndexError", "TypeError"} =>
          /\ datasets' = datasets
          /\ indexes' = indexes
          /\ pipelines' = pipelines
          /\ source' = source
          /\ result'.before = datasets[result'.self]]_vars

\* >> has raised TypeError on a Dataset with a preloaded payload, after two
\* pipelines were made.
C13_Witness ==
    /\ result.op = "rshift"
    /\ result.kind = "TypeError"
    /\ result.before.preloaded = "payload"
    /\ Len(indexes[result.before.index].indices) = 2
    /\ Len(pipelines) = 2

\* C14 as stated: the identity-sharing check takes two indices as equal
\* exactly when they have the same number of identifiers and the identifiers
\* are equal one by one, whatever their types; so from_dataset, with the
\* batch class omitted or the source's, returns the source Dataset exactly
\* then, also for two sibling subtypes of DatasetIndex.
C14_EqualExactlyWhenSameIdentifiers ==
    (result.op = "from_dataset" /\ ClassMatches)
        => (ReturnedSelf <=> SameIdentifiers(ArgIndex, OwnIndex))

\* C14 amended: the identity-sharing check takes two indices as equal exactly
\* when the type of one is the type of the other or a subclass of it, they
\* have the same number of identifiers and the identifiers are equal one by
\* one; from_dataset, with the batch class omitted or the source's, returns
\* the source Dataset exactly then, and a new Dataset otherwise.
C14_EqualExactlyWhenRelatedAndSameIdentifiers ==
    (result.op = "from_dataset" /\ ClassMatches)
        => /\ ReturnedSelf <=> (/\ SameIdentifiers(ArgIndex, OwnIndex)
                                /\ TypeRelated(ArgIndex, OwnIndex))
           /\ ReturnedSelf <=> ~result.fresh

\* from_dataset was given an index of a sibling subtype with the same two
\* identifiers as the source's index, and has made a new Dataset.
C14_Witness ==
    /\ result.op = "from_dataset"
    /\ ClassMatches
    /\ ArgIndex.type = "FilesIndex"
    /\ OwnIndex.type = "UserIndex"
    /\ Len(OwnIndex.indices) = 2
    /\ SameIdentifiers(ArgIndex, OwnIndex)
    /\ result.fresh
    /\ ~ReturnedSelf

\* C15: for a Dataset d and a pipeline P that carries the chain A and was
\* built unbound or bound to another Dataset, d >> P is the pipeline that
\* d.pipeline() followed by the chain A is: the same action steps in the same
\* order, bound to d.
C15_LateBindingIsEarlyBinding ==
    (/\ result.op = "rshift"
     /\ result.other.type = "Pipeline"
     /\ result.pipes[result.other.ref].dataset # result.self)
        => /\ result.kind = "Pipeline"
           /\ result.ref \in DOMAIN pipelines
           /\ pipelines[result.ref] =
                  Chain(pipeline(result.self),
                        result.pipes[result.other.ref].actions)

\* A pipeline bound to the other Dataset, with two different steps, was bound
\* to d.
C15_Witness ==
    /\ result.op = "rshift"
    /\ result.kind = "Pipeline"
    /\ result.pipes[result.other.ref].dataset \notin {0, result.self}
    /\ result.pipes[result.other.ref].actions = <<"resize", "load">>
    /\ pipelines[result.ref].actions = <<"resize", "load">>
    /\ pipelines[result.ref].dataset = result.self

\* C16: every Dataset derived from D by create_subset calls and by
\* from_dataset calls without a batch class, in any number of steps, has D's
\* batch class and D's preloaded payload; so has the Dataset such a call
\* returns.
C16_DerivedKeepClassAndPayload ==
    /\ \A d \in DOMAIN datasets :
           /\ datasets[d].batch_class = datasets[1].batch_class
           /\ datasets[d].preloaded = datasets[1].preloaded
    /\ result.kind = "Dataset" =>
           /\ result.ds.batch_class = datasets[1].batch_class
           /\ result.ds.preloaded = datasets[1].preloaded

\* A Dataset derived from D, which has a payload and the other batch class,
\* has itself given a new Dataset through from_dataset.
C16_Witness ==
    /\ datasets[1].batch_class = "OtherBatch"
    /\ datasets[1].preloaded = "payload"
    /\ Len(datasets) = 2
    /\ source[2] = 1
    /\ result.op = "from_dataset"
    /\ result.self = 2
    /\ result.fresh
    /\ result.ds.index # datasets[2].index

\* C17: a Batch that D.create_batch returns is built by D's batch class and
\* has D's preloaded payload and the caller's extra keyword arguments; when
\* the batch class raises an error, create_batch raises that very error, and
\* D and its index are as before.
C17_BatchOfOwnClassOrItsError ==
    [][result'.op = "create_batch" =>
          LET D == datasets[result'.self]
          IN /\ result'.kind = "Batch" =>
                    /\ result'.batch.cls = D.batch_class
                    /\ result'.batch.preloaded = D.preloaded
                    /\ result'.batch.kwargs = result'.kwargs
             /\ (D.batch_class \in FailingClasses /\ result'.kind # "IndexError")
                    => result'.kind = BatchClassRaises(D.batch_class)
             /\ result'.kind # "Batch" =>
                    /\ datasets' = datasets
                    /\ indexes' = indexes]_vars

\* The batch class of a Dataset with a payload has raised its error in a
\* create_batch call with positions and a keyword argument.
C17_Witness ==
    /\ result.op = "create_batch"
    /\ result.kind = "ConfigurationError"
    /\ result.before.batch_class \in FailingClasses
    /\ result.before.preloaded = "payload"
    /\ result.pos
    /\ Len(result.arg.raw) = 2
    /\ result.kwargs = {"shape"}

\* C18: for an instance d of a class C (Dataset or a subclass of it), every
\* d.create_subset(index) that succeeds returns an instance of C: the new
\* Dataset is constructed by C, and the Dataset returned by the shortcut is
\* d itself.
C18_SubsetOfOwnClass ==
    (result.op = "create_subset" /\ result.kind = "Dataset")
        => /\ result.ds.cls = result.before.cls
           /\ ~result.fresh => (result.ref = result.self /\ result.ds = result.before)

\* A new subset of an instance of the subclass has been constructed.
C18_Witness ==
    /\ result.op = "create_subset"
    /\ result.kind = "Dataset"
    /\ result.before.cls = "SubDataset"
    /\ result.fresh
    /\ result.ds.cls = "SubDataset"
    /\ Len(result.index.indices) = 1

\* C19: every Batch that D.create_batch returns with as_positions false has
\* an index whose identifiers are all identifiers of D's index, for a raw
\* argument as for an index object: no batch over an identifier outside D's
\* index is made.
C19_BatchWithinIndex ==
    (result.op = "create_batch" /\ ~result.pos /\ result.kind = "Batch")
        => IsInAll(result.batch.index.indices, OwnIndex.indices)

\* create_batch was given an index object with an identifier that D's index
\* has not, and has returned a Batch on it.
C19_Witness ==
    /\ result.op = "create_batch"
    /\ ~result.pos
    /\ IsIndexArg(result.arg)
    /\ result.kind = "Batch"
    /\ OwnIndex.indices = <<0>>
    /\ result.batch.index.indices = <<1>>

\* No identifier occurs twice.
NoRepeats(ids) == \A i, j \in DOMAIN ids : i # j => ids[i] # ids[j]

\* C20: after any sequence of successful create_subset calls that starts
\* from D, the identifiers of every derived Dataset are identifiers of the
\* Dataset it was derived from, and so of D; they are unique when D's
\* identifiers and the requested indices are.  The same holds for the
\* Dataset the last call has returned.
C20_DerivedWithinSource ==
    LET root == IndexOfDataset(1).indices
    IN /\ \A d \in DOMAIN datasets :
              source[d] # 0 =>
                  /\ IsInAll(IndexOfDataset(d).indices,
                             IndexOfDataset(source[d]).indices)
                  /\ IsInAll(IndexOfDataset(d).indices, root)
                  /\ NoRepeats(root) => NoRepeats(IndexOfDataset(d).indices)
       /\ (result.op = "create_subset" /\ result.kind = "Dataset") =>
              /\ IsInAll(result.index.indices, OwnIndex.indices)
              /\ IsInAll(result.index.indices, root)
              /\ (NoRepeats(root) /\ NoRepeats(ArgIndex.indices))
                     => NoRepeats(result.index.indices)

\* A subset of a subset of D has been made: the first has D's two
\* identifiers, the second one of them.
C20_Witness ==
    /\ Len(datasets) = 2
    /\ source[2] = 1
    /\ datasets[2].index # datasets[1].index
    /\ Len(IndexOfDataset(2).indices) = 2
    /\ result.op = "create_subset"
    /\ result.self = 2
    /\ result.kind = "Dataset"
    /\ result.fresh
    /\ Len(result.index.indices) = 1

\* C21: the identity-sharing check looks at the order.  For an index I whose
\* identifiers are not those of D.index position by position (the same
\* identifiers in another order, or another number of them), from_dataset(D, I)
\* and a D.create_subset(I) that succeeds return a new Dataset, not D, on the
\* index I with I's order; create_subset succeeds for every reordering of
\* D's identifiers; and D is returned only when the identifiers agree
\* position by position.
C21_SharingLooksAtOrder ==
    result.op \in {"from_dataset", "create_subset"} =>
        /\ (result.op = "create_subset"
              /\ Range(ArgIndex.indices) = Range(OwnIndex.indices))
                 => result.kind = "Dataset"
        /\ (result.kind = "Dataset" /\ ~SameIdentifiers(ArgIndex, OwnIndex))
                 => /\ ~ReturnedSelf
                    /\ result.fresh
                    /\ result.ref # result.self
                    /\ result.ds.index = AddrOf(result.arg)
                    /\ result.index.indices = ArgIndex.indices
                    /\ datasets[result.self] = result.before
        /\ ReturnedSelf => SameIdentifiers(ArgIndex, OwnIndex)

\* create_subset was given D's two identifiers in the other order, in an
\* index of D's index type, and has made a new Dataset in that order.
C21_Witness ==
    /\ result.op = "create_subset"
    /\ result.kind = "Dataset"
    /\ ArgIndex.type = OwnIndex.type
    /\ OwnIndex.indices = <<0, 1>>
    /\ ArgIndex.indices = <<1, 0>>
    /\ result.fresh
    /\ result.index.indices = <<1, 0>>

====
